---- MODULE Spec2Model ----
(***************************************************************************)
(* SeriouslySlowLFO (FrozenWasteland): a phase-accumulating oscillator      *)
(* (LowFrequencyOscillator), two Schmitt-trigger edge detectors and the     *)
(* per-sample step() of the module that drives them.                        *)
(*                                                                          *)
(* Numbers.  `float phase` is modelled as a binary floating-point value     *)
(* with a significand of MantBits bits, written as a natural number of      *)
(* quanta of 2^-FracBits (so 1.0 is One quanta).  Every float addition      *)
(* rounds to nearest, ties to even, exactly as binary32 does with its 24    *)
(* bits; the narrower significand is the scaled-down width.  Frequencies    *)
(* and sample intervals are rationals [num, den]; den = 0 is +infinity      *)
(* (the value of 1.0 / 0).  Trigger signals are integers in units of 0.005. *)
(* A freq * dt below half a quantum rounds to 0, as a binary32 product      *)
(* below half the smallest subnormal does.                                  *)
(***************************************************************************)
EXTENDS Integers, Naturals, Sequences, FiniteSets, TLC

\* ---------------------------------------------------------------- bounds
MantBits == 3
FracBits == 8
MaxHist == 4
MaxReads == 2

Pow2(n) == 2 ^ n

One == Pow2(FracBits)
Half == One \div 2

\* ------------------------------------------------------- float arithmetic
R(n, d) == [num |-> n, den |-> d]

\* smallest power of two s with num / (den * s) < 2^MantBits
RECURSIVE Scale(_, _, _)
Scale(num, den, s) ==
    IF num \div (den * s) < Pow2(MantBits) THEN s ELSE Scale(num, den, 2 * s)

\* num / den rounded to an integer, ties to even
RoundHalfEven(num, den) ==
    LET q == num \div den
        r == num % den
    IN  IF 2 * r < den THEN q
        ELSE IF 2 * r > den THEN q + 1
        ELSE IF q % 2 = 0 THEN q ELSE q + 1

\* the float nearest to num / den quanta
RoundRatio(num, den) ==
    LET s == Scale(num, den, 1) IN s * RoundHalfEven(num, den * s)

\* distance between neighbouring floats around n quanta
Ulp(n) == Scale(n, 1, 1)

IsFloat(n) == RoundRatio(n, 1) = n

Nearest == [k \in 0..(10 * One) |-> RoundRatio(k, 1)]

\* float a + b
FAdd(a, b) == Nearest[a + b]

\* the C remainder a % n (truncated towards zero), n > 0
CRem(a, n) == IF a >= 0 THEN a % n ELSE -((-a) % n)

Abs(x) == IF x >= 0 THEN x ELSE -x

\* a double result stored in a float: n quanta of either sign, rounded
Narrow(n) == IF n >= 0 THEN Nearest[n] ELSE -Nearest[-n]

\* roundf(x): the nearest whole number, halves away from zero
roundf(x) ==
    IF x >= 0 THEN One * ((x + Half) \div One)
    ELSE -(One * ((Half - x) \div One))

Min(a, b) == IF a <= b THEN a ELSE b
Max(a, b) == IF a >= b THEN a ELSE b

clampf(x, lo, hi) == Max(Min(x, hi), lo)

\* ------------------------------------------------------- SchmittTrigger
\* resetTrigger.setThresholds(0.0, 0.01), units of 0.005
ResetLow == 0
\* a high threshold of 0.025
ResetHigh_Raised == ResetLow + 5
ResetHigh == 2
\* thresholds of sumTrigger (the detector's defaults 0.0 and 1.0)
SumLow == 0
SumHigh == 200

\* process(signal): the new armed flag and the returned trigger
Process(armed, low, high, signal) ==
    IF ~armed /\ signal >= high THEN [armed |-> TRUE, fired |-> TRUE]
    ELSE IF armed /\ signal <= low THEN [armed |-> FALSE, fired |-> FALSE]
    ELSE [armed |-> armed, fired |-> FALSE]

\* ------------------------------------------------ LowFrequencyOscillator
\* freq * dt > 0.5, on the exact product
ExceedsHalf(f, dt) ==
    \/ f.den = 0
    \/ dt.den = 0 /\ f.num > 0
    \/ f.den > 0 /\ dt.den > 0 /\ 2 * f.num * dt.num > f.den * dt.den

\* fminf(freq * dt, 1.0): the cap set to a whole cycle
DeltaPhase_Cap1(f, dt) ==
    IF f.den = 0 \/ dt.den = 0 \/ f.num * dt.num >= f.den * dt.den THEN One
    ELSE RoundRatio(One * f.num * dt.num, f.den * dt.den)

\* fminf(freq * dt, 0.5); fminf returns 0.5 for +inf and for NaN (inf * 0)
DeltaPhase(f, dt) ==
    IF ExceedsHalf(f, dt) THEN Half
    ELSE Min(RoundRatio(One * f.num * dt.num, f.den * dt.den), Half)

\* the wrap tested with phase > 1.0
StepPhase_WrapAboveOne(ph, f, dt) ==
    LET sum == FAdd(ph, DeltaPhase(f, dt))
    IN  IF sum > One THEN sum - One ELSE sum

\* phase += deltaPhase; if (phase >= 1.0) phase -= 1.0
StepPhase(ph, f, dt) ==
    LET sum == FAdd(ph, DeltaPhase(f, dt))
    IN  IF sum >= One THEN sum - One ELSE sum

\* hardReset(): phase = 0.0
HardResetPhase(ph) == 0

\* setReset that drops the trigger's result
SetResetPhase_Keeps(ph, fired) == ph

\* setReset(reset): if (resetTrigger.process(reset)) phase = 0.0
SetResetPhase(ph, fired) == IF fired THEN 0 ELSE ph

\* setPulseWidth(pw_): pw = clampf(pw_, 0.01, 1.0 - 0.01)
SetPulseWidth(w) ==
    clampf(RoundRatio(One * w.num, w.den), RoundRatio(One, 100),
           RoundRatio(99 * One, 100))

\* sin(2 pi t) at the eighths of a turn, sin(pi / 4) = 0.7071
SinEighths ==
    LET s == (181 * One) \div 256
    IN  <<0, s, One, s, 0, -s, -One, -s, 0>>

\* sinf(2 * M_PI * t) for t in [0, 1): exact at the eighths of a turn and
\* interpolated between them, which is within the spacing of the floats
SinTurn(t) ==
    LET e == One \div 8
        k == t \div e
        a == SinEighths[k + 1]
        b == SinEighths[k + 2]
    IN  Narrow(a + ((b - a) * (t % e)) \div e)

\* cosf(2 * M_PI * t)
CosTurn(t) == SinTurn((t + One \div 4) % One)

\* sin()
SinValue(ph, off, inv) ==
    IF off THEN Narrow(One - CosTurn(ph) * (IF inv THEN -1 ELSE 1))
    ELSE Narrow(SinTurn(ph) * (IF inv THEN -1 ELSE 1))

\* tri(float x): 4.0 * fabsf(x - roundf(x))
TriHelper(x) == Narrow(4 * Abs(Narrow(x - roundf(x))))

\* tri() with the branches of invert exchanged
TriValue_Exchanged(ph, off, inv) ==
    IF off THEN TriHelper(Narrow(IF inv THEN ph ELSE ph - Half))
    ELSE Narrow(TriHelper(Narrow(IF inv THEN ph - 3 * (One \div 4)
                                 ELSE ph - One \div 4)) - One)

\* tri()
TriValue(ph, off, inv) ==
    IF off THEN TriHelper(Narrow(IF inv THEN ph - Half ELSE ph))
    ELSE Narrow(TriHelper(Narrow(IF inv THEN ph - One \div 4
                                 ELSE ph - 3 * (One \div 4))) - One)

\* saw(float x): 2.0 * (x - roundf(x))
SawHelper(x) == Narrow(2 * Narrow(x - roundf(x)))

\* saw()
SawValue(ph, off, inv) ==
    IF off THEN Narrow(IF inv THEN 2 * (One - ph) ELSE 2 * ph)
    ELSE Narrow(SawHelper(ph) * (IF inv THEN -1 ELSE 1))

\* sqr(): (phase < pw) ^ invert ? 1.0 : -1.0, plus 1.0 with offset
SqrValue(ph, w, off, inv) ==
    LET v == IF (ph < w) # inv THEN One ELSE -One
    IN  IF off THEN v + One ELSE v

\* progress()
Progress(ph) == ph

\* ------------------------------------------------------ SeriouslySlowLFO
\* the time-base parameter tested by level, with no edge detector
TimeBaseTrigger_Level(armed, signal) ==
    [armed |-> signal >= SumHigh, fired |-> signal >= SumHigh]

\* sumTrigger.process(params[TIME_BASE_PARAM].value)
TimeBaseTrigger(armed, signal) == Process(armed, SumLow, SumHigh, signal)

\* the modulus off by one
NextTimeBase_Mod6(tb) == CRem(tb + 1, 6)

\* timeBase = (timeBase + 1) % 5
NextTimeBase(tb) == CRem(tb + 1, 5)

\* the mode change without oscillator.hardReset()
ModeChange_NoReset(tb, ph, fired) ==
    IF fired THEN [timeBase |-> NextTimeBase(tb), phase |-> ph]
    ELSE [timeBase |-> tb, phase |-> ph]

\* if (sumTrigger.process(...)) { timeBase = ...; oscillator.hardReset(); }
ModeChange(tb, ph, fired) ==
    IF fired THEN [timeBase |-> NextTimeBase(tb), phase |-> HardResetPhase(ph)]
    ELSE [timeBase |-> tb, phase |-> ph]

\* switch (timeBase): numberOfSeconds, 0 when no case matches
NumberOfSeconds(tb) ==
    CASE tb = 0 -> 60
      [] tb = 1 -> 3600
      [] tb = 2 -> 86400
      [] tb = 3 -> 604800
      [] tb = 4 -> 259200
      [] OTHER -> 0

\* the clamp's upper limit set to 1000
Duration_WideClamp(param, fmActive, fm) ==
    clampf(IF fmActive THEN param + fm ELSE param, 1, 1000)

\* duration = param; if (FM active) duration += FM; clampf(duration, 1, 100)
Duration(param, fmActive, fm) ==
    clampf(IF fmActive THEN param + fm ELSE param, 1, 100)

\* 1.0 / (duration * numberOfSeconds); 1.0 / 0 is +infinity
Frequency(dur, secs) == R(1, dur * secs)

\* 1.0 / engineGetSampleRate()
SampleTime(rate) == R(rate.den, rate.num)

\* setReset called without testing inputs[RESET_INPUT].active
ResetInput_Always(armed, active, signal) ==
    Process(armed, ResetLow, ResetHigh, signal)

\* if (inputs[RESET_INPUT].active) oscillator.setReset(value)
ResetInput(armed, active, signal) ==
    IF active THEN Process(armed, ResetLow, ResetHigh, signal)
    ELSE [armed |-> armed, fired |-> FALSE]

\* setReset applied before oscillator.step
TickPhase_ResetFirst(ph, f, dt, fired) ==
    StepPhase(SetResetPhase(ph, fired), f, dt)

\* oscillator.step(1.0 / sampleRate), then setReset on an active input
TickPhase(ph, f, dt, fired) == SetResetPhase(StepPhase(ph, f, dt), fired)

\* outputs[...].value = 5.0 * oscillator.sin(), tri(), saw(), sqr()
Outputs(ph, w, off, inv) ==
    [sin |-> Narrow(5 * SinValue(ph, off, inv)),
     tri |-> Narrow(5 * TriValue(ph, off, inv)),
     saw |-> Narrow(5 * SawValue(ph, off, inv)),
     sqr |-> Narrow(5 * SqrValue(ph, w, off, inv))]

\* lights[i].value = i != timeBase ? 0.0 : 1.0
Lights(tb) == [i \in 0..4 |-> IF i # tb THEN 0 ELSE 1]

\* fromJson: the stored integer is adopted when the key is present
FromJsonTimeBase(tb, present, stored) == IF present THEN stored ELSE tb

\* ---------------------------------------------------------------- inputs
\* The sample rates are scaled down as the significand is, so that
\* deltaPhase stands to the spacing of the phase as it does in binary32 at
\* audio rates: in Minutes a step is a few spacings wide, in the slower
\* time-bases it falls below half a spacing or rounds to 0.
OscFreqs == {R(1, 8), R(1, 1), R(3, 1), R(1, 200), R(1, 0)}
OscDts == {R(0, 1), R(1, 1), R(1, 2), R(1, 4)}
ResetSignals == {-2, 0, 1, 2, 4}
SumSignals == {0, 100, 200}
TickResetSignals == {0, 2}
DurationParams == {1, 100}
FmValues == {-99, 99}
SampleRates == {R(1, 8)}
StoredValues == {2, 5}
PulseWidths == {R(0, 1), R(3, 4)}
Readouts == {"sin", "tri", "saw", "sqr", "progress"}

\* ----------------------------------------------------------------- state
VARIABLES phase, pw, freq, offset, invert, resetTrigger, sumTrigger,
          timeBase, duration, outputs, lights, sampleRate, lowSeen,
          trigHist, last

vars == <<phase, pw, freq, offset, invert, resetTrigger, sumTrigger,
          timeBase, duration, outputs, lights, sampleRate, lowSeen,
          trigHist, last>>

shapeVars == <<pw, offset, invert>>
oscVars == <<phase, freq, resetTrigger, shapeVars>>
modVars == <<sumTrigger, timeBase, duration, outputs, lights, sampleRate>>

\* what the last operation saw and did
Blank ==
    [op |-> "init", prePhase |-> 0, preTimeBase |-> 0, preArmed |-> FALSE,
     preLow |-> TRUE, det |-> "none", signal |-> 0, fired |-> FALSE,
     sumFired |-> FALSE, resetActive |-> FALSE, capped |-> FALSE,
     delta |-> 0, stepPhase |-> 0, seconds |-> 0, period |-> 0,
     dt |-> R(0, 1), present |-> FALSE, stored |-> 0,
     tbSignal |-> 0, durParam |-> 0, fmActive |-> FALSE, fm |-> 0,
     value |-> 0, reads |-> 0]

\* lowSeen[d]: a signal <= low has been processed since d last fired
LowSeenAfter(seen, fired, signal, low) ==
    IF fired THEN FALSE ELSE IF signal <= low THEN TRUE ELSE seen

Init ==
    /\ phase = 0
    /\ pw = Half
    /\ freq = R(1, 1)
    /\ offset = FALSE
    /\ invert = FALSE
    /\ outputs = [sin |-> 0, tri |-> 0, saw |-> 0, sqr |-> 0]
    /\ resetTrigger = FALSE
    /\ sumTrigger = FALSE
    /\ timeBase = 0
    /\ duration = 0
    /\ lights = [i \in 0..4 |-> 0]
    /\ sampleRate \in SampleRates
    /\ lowSeen = [reset |-> TRUE, sum |-> TRUE]
    /\ trigHist = << >>
    /\ last = Blank

\* ------------------------------------------- oscillator, called directly
setFrequency(f) ==
    /\ freq' = f
    /\ last' = [Blank EXCEPT !.op = "setFrequency", !.prePhase = phase]
    /\ UNCHANGED <<phase, resetTrigger, shapeVars, modVars, lowSeen, trigHist>>

step(dt) ==
    /\ phase' = StepPhase(phase, freq, dt)
    /\ last' = [Blank EXCEPT !.op = "step", !.prePhase = phase, !.dt = dt,
                             !.capped = ExceedsHalf(freq, dt),
                             !.delta = DeltaPhase(freq, dt),
                             !.stepPhase = StepPhase(phase, freq, dt)]
    /\ UNCHANGED <<freq, resetTrigger, shapeVars, modVars, lowSeen, trigHist>>

setReset(signal) ==
    LET p == Process(resetTrigger, ResetLow, ResetHigh, signal)
    IN  /\ resetTrigger' = p.armed
        /\ phase' = SetResetPhase(phase, p.fired)
        /\ lowSeen' = [lowSeen EXCEPT
                         !.reset = LowSeenAfter(@, p.fired, signal, ResetLow)]
        /\ last' = [Blank EXCEPT !.op = "setReset", !.prePhase = phase,
                                 !.det = "reset", !.signal = signal,
                                 !.fired = p.fired,
                                 !.preArmed = resetTrigger,
                                 !.preLow = lowSeen.reset]
        /\ UNCHANGED <<freq, shapeVars, modVars, trigHist>>

hardReset ==
    /\ phase' = HardResetPhase(phase)
    /\ last' = [Blank EXCEPT !.op = "hardReset", !.prePhase = phase]
    /\ UNCHANGED <<freq, resetTrigger, shapeVars, modVars, lowSeen, trigHist>>

OscNext ==
    \/ \E f \in OscFreqs : setFrequency(f)
    \/ \E dt \in OscDts : step(dt)
    \/ \E s \in ResetSignals : setReset(s)
    \/ hardReset

SpecOsc == Init /\ [][OscNext]_vars

\* -------------------------------------------------- the waveform readouts
setPulseWidth(w) ==
    /\ pw' = SetPulseWidth(w)
    /\ last' = [Blank EXCEPT !.op = "setPulseWidth", !.prePhase = phase]
    /\ UNCHANGED <<phase, freq, offset, invert, resetTrigger, modVars,
                   lowSeen, trigHist>>

\* the public fields offset and invert, assigned by the owner
setShape(off, inv) ==
    /\ offset' = off
    /\ invert' = inv
    /\ last' = [Blank EXCEPT !.op = "setShape", !.prePhase = phase]
    /\ UNCHANGED <<phase, pw, freq, resetTrigger, modVars, lowSeen, trigHist>>

\* consecutive readout calls are followed up to MaxReads
ReadAllowed == last.op \in Readouts => last.reads < MaxReads
ReadsAfter == IF last.op \in Readouts THEN last.reads + 1 ELSE 1

sin ==
    /\ ReadAllowed
    /\ last' = [Blank EXCEPT !.op = "sin", !.prePhase = phase,
                             !.value = SinValue(phase, offset, invert),
                             !.reads = ReadsAfter]
    /\ UNCHANGED <<oscVars, modVars, lowSeen, trigHist>>

tri ==
    /\ ReadAllowed
    /\ last' = [Blank EXCEPT !.op = "tri", !.prePhase = phase,
                             !.value = TriValue(phase, offset, invert),
                             !.reads = ReadsAfter]
    /\ UNCHANGED <<oscVars, modVars, lowSeen, trigHist>>

saw ==
    /\ ReadAllowed
    /\ last' = [Blank EXCEPT !.op = "saw", !.prePhase = phase,
                             !.value = SawValue(phase, offset, invert),
                             !.reads = ReadsAfter]
    /\ UNCHANGED <<oscVars, modVars, lowSeen, trigHist>>

sqr ==
    /\ ReadAllowed
    /\ last' = [Blank EXCEPT !.op = "sqr", !.prePhase = phase,
                             !.value = SqrValue(phase, pw, offset, invert),
                             !.reads = ReadsAfter]
    /\ UNCHANGED <<oscVars, modVars, lowSeen, trigHist>>

\* progress() that restarts the cycle it reports
progress_Consumes ==
    /\ ReadAllowed
    /\ phase' = 0
    /\ last' = [Blank EXCEPT !.op = "progress", !.prePhase = phase,
                             !.value = Progress(phase),
                             !.reads = ReadsAfter]
    /\ UNCHANGED <<freq, resetTrigger, shapeVars, modVars, lowSeen, trigHist>>

progress ==
    /\ ReadAllowed
    /\ last' = [Blank EXCEPT !.op = "progress", !.prePhase = phase,
                             !.value = Progress(phase),
                             !.reads = ReadsAfter]
    /\ UNCHANGED <<oscVars, modVars, lowSeen, trigHist>>

ReadNext ==
    \/ OscNext
    \/ \E w \in PulseWidths : setPulseWidth(w)
    \/ \E off \in BOOLEAN, inv \in BOOLEAN : setShape(off, inv)
    \/ sin
    \/ tri
    \/ saw
    \/ sqr
    \/ progress

SpecRead == Init /\ [][ReadNext]_vars

\* ------------------------------------------- edge detector, called directly
\* SchmittTrigger::process on one of the two detectors
process(det, signal) ==
    LET armed == IF det = "reset" THEN resetTrigger ELSE sumTrigger
        low == IF det = "reset" THEN ResetLow ELSE SumLow
        high == IF det = "reset" THEN ResetHigh ELSE SumHigh
        p == Process(armed, low, high, signal)
    IN  /\ resetTrigger' = IF det = "reset" THEN p.armed ELSE resetTrigger
        /\ sumTrigger' = IF det = "sum" THEN p.armed ELSE sumTrigger
        /\ lowSeen' = [lowSeen EXCEPT
                         ![det] = LowSeenAfter(@, p.fired, signal, low)]
        /\ trigHist' =
             IF det = "reset"
             THEN LET h == Append(trigHist,
                                  [signal |-> signal, fired |-> p.fired])
                  IN  IF Len(h) > MaxHist THEN Tail(h) ELSE h
             ELSE trigHist
        /\ last' = [Blank EXCEPT !.op = "process", !.det = det,
                                 !.signal = signal, !.fired = p.fired,
                                 !.preArmed = armed, !.preLow = lowSeen[det]]
        /\ UNCHANGED <<phase, freq, shapeVars, timeBase, duration, outputs,
                       lights, sampleRate>>

TrigNext ==
    \/ \E s \in ResetSignals : process("reset", s)
    \/ \E s \in SumSignals : process("sum", s)

SpecTrig == Init /\ [][TrigNext]_vars

\* ------------------------------------------------------------ the module
\* SeriouslySlowLFO::step(), one audio sample
SeriouslySlowLFO_step(tbSignal, durParam, fmActive, fm, resetActive, resetSignal) ==
    LET tp == TimeBaseTrigger(sumTrigger, tbSignal)
        mc == ModeChange(timeBase, phase, tp.fired)
        secs == NumberOfSeconds(mc.timeBase)
        dur == Duration(durParam, fmActive, fm)
        f == Frequency(dur, secs)
        dt == SampleTime(sampleRate)
        stepped == StepPhase(mc.phase, f, dt)
        rp == ResetInput(resetTrigger, resetActive, resetSignal)
    IN  /\ sumTrigger' = tp.armed
        /\ timeBase' = mc.timeBase
        /\ duration' = dur
        /\ freq' = f
        /\ resetTrigger' = rp.armed
        /\ phase' = TickPhase(mc.phase, f, dt, rp.fired)
        /\ \E ph \in {TickPhase(mc.phase, f, dt, rp.fired)} :
              outputs' = Outputs(ph, pw, offset, invert)
        /\ lights' = Lights(mc.timeBase)
        /\ lowSeen' =
             [reset |-> IF resetActive
                        THEN LowSeenAfter(lowSeen.reset, rp.fired,
                                          resetSignal, ResetLow)
                        ELSE lowSeen.reset,
              sum |-> LowSeenAfter(lowSeen.sum, tp.fired, tbSignal, SumLow)]
        /\ last' = [Blank EXCEPT !.op = "tick", !.prePhase = phase,
                                 !.preTimeBase = timeBase,
                                 !.preArmed = resetTrigger,
                                 !.preLow = lowSeen.sum,
                                 !.signal = resetSignal,
                                 !.sumFired = tp.fired,
                                 !.resetActive = resetActive,
                                 !.fired = rp.fired,
                                 !.capped = ExceedsHalf(f, dt),
                                 !.delta = DeltaPhase(f, dt),
                                 !.stepPhase = stepped,
                                 !.seconds = secs,
                                 !.period = dur * secs,
                                 !.dt = dt,
                                 !.tbSignal = tbSignal,
                                 !.durParam = durParam,
                                 !.fmActive = fmActive,
                                 !.fm = fm]
        /\ UNCHANGED <<shapeVars, sampleRate, trigHist>>

\* SeriouslySlowLFO::fromJson
fromJson(present, stored) ==
    /\ timeBase' = FromJsonTimeBase(timeBase, present, stored)
    /\ last' = [Blank EXCEPT !.op = "fromJson", !.prePhase = phase,
                             !.preTimeBase = timeBase,
                             !.present = present, !.stored = stored]
    /\ UNCHANGED <<oscVars, sumTrigger, duration, outputs, lights,
                   sampleRate, lowSeen, trigHist>>

\* SeriouslySlowLFO::reset
reset ==
    /\ timeBase' = 0
    /\ last' = [Blank EXCEPT !.op = "reset", !.prePhase = phase,
                             !.preTimeBase = timeBase]
    /\ UNCHANGED <<oscVars, sumTrigger, duration, outputs, lights,
                   sampleRate, lowSeen, trigHist>>

Next ==
    \/ \E tbSignal \in SumSignals, durParam \in DurationParams,
          fmActive \in BOOLEAN,
          resetActive \in BOOLEAN :
          \E fm \in (IF fmActive THEN FmValues ELSE {0}),
             resetSignal \in (IF resetActive THEN TickResetSignals
                              ELSE {ResetHigh}) :
             SeriouslySlowLFO_step(tbSignal, durParam, fmActive, fm,
                                   resetActive, resetSignal)
    \/ \E present \in BOOLEAN :
          \E stored \in (IF present THEN StoredValues ELSE {0}) :
             fromJson(present, stored)
    \/ reset

Spec == Init /\ [][Next]_vars

\* one call of step() with any inputs
Tick ==
    \E tbSignal \in SumSignals, durParam \in DurationParams,
       fmActive \in BOOLEAN,
       resetActive \in BOOLEAN :
       \E fm \in (IF fmActive THEN FmValues ELSE {0}),
          resetSignal \in (IF resetActive THEN TickResetSignals
                           ELSE {ResetHigh}) :
          SeriouslySlowLFO_step(tbSignal, durParam, fmActive, fm,
                                resetActive, resetSignal)

\* the engine calls step() once per sample for as long as the module runs
SpecLive == Init /\ [][Next]_vars /\ WF_vars(Tick)

\* ================================================================ claims

\* C1: the phase stays normalised: after any sequence of step, setReset
\* and hardReset calls with dt >= 0 and freq > 0, 0 <= phase < 1.
C1_PhaseNormalised == 0 <= phase /\ phase < One

\* a step whose float sum rounded up to exactly 1.0 and wrapped to 0
C1_Witness ==
    /\ last.op = "step"
    /\ last.prePhase > 0
    /\ last.prePhase + last.delta < One
    /\ phase = 0

\* C2 as stated: a step with freq * dt > 0.5 leaves phase at exactly
\* (old phase + 0.5) mod 1, and no step advances the phase by more than 0.5.
C2_ExactHalfAdvance ==
    last.op = "step" =>
        /\ (phase - last.prePhase + One) % One <= Half
        /\ last.capped => phase = (last.prePhase + Half) % One

\* C2 as amended: with freq * dt > 0.5 the deltaPhase added is exactly 0.5,
\* no step adds a deltaPhase above 0.5, and the stored phase is the float sum
\* old phase + 0.5 rounded to nearest (less 1 once it reaches 1): equal to
\* old phase + 0.5 when that is representable, within half an ulp otherwise.
C2_HalfCycleCap ==
    last.op = "step" =>
        /\ last.delta <= Half
        /\ last.capped =>
             LET exact == last.prePhase + Half
                 stored == IF phase < last.prePhase THEN phase + One ELSE phase
             IN  /\ last.delta = Half
                 /\ 2 * Abs(stored - exact) <= Ulp(exact)
                 /\ IsFloat(exact) => stored = exact

\* a capped step that wrapped and whose sum had to be rounded
C2_Witness ==
    /\ last.op = "step"
    /\ last.capped
    /\ last.prePhase > Half
    /\ phase < last.prePhase
    /\ phase # (last.prePhase + Half) % One

\* C3: hardReset() leaves phase exactly 0; setReset(signal) leaves phase
\* exactly 0 when its detector reports a trigger and unchanged otherwise.
C3_ResetSemantics ==
    /\ last.op = "hardReset" => phase = 0
    /\ last.op = "setReset" =>
         phase = (IF last.fired THEN 0 ELSE last.prePhase)

\* a triggered setReset on a phase that was not 0
C3_Witness ==
    /\ last.op = "setReset"
    /\ last.fired
    /\ last.prePhase > 0
    /\ phase = 0

\* the signals and the results of the latest n process calls on resetTrigger
LatestCalls(n) ==
    IF Len(trigHist) < n THEN << >>
    ELSE SubSeq(trigHist, Len(trigHist) - n + 1, Len(trigHist))

ExampleSignals == <<0, 4, 0, 4>>
ExampleCalls ==
    /\ LatestCalls(4) # << >>
    /\ \A i \in 1..4 : LatestCalls(4)[i].signal = ExampleSignals[i]

\* C4: a process call returns true only when the detector is unarmed and
\* signal >= high, and only if a signal <= low was processed since the
\* previous true; the signals 0.0, 0.02, 0.0, 0.02 on thresholds (0.0, 0.01)
\* return false, true, false, true.
C4_EdgeDetector ==
    /\ (last.op = "process" /\ last.fired) =>
         /\ ~last.preArmed
         /\ last.signal >= (IF last.det = "reset" THEN ResetHigh ELSE SumHigh)
         /\ last.preLow
    /\ ExampleCalls =>
         \A i \in 1..4 : LatestCalls(4)[i].fired = (i % 2 = 0)

\* the example sequence has been processed and fired twice
C4_Witness ==
    /\ ExampleCalls
    /\ LatestCalls(4)[2].fired
    /\ LatestCalls(4)[4].fired
    /\ last.op = "process"
    /\ last.fired

\* C5: in a tick where the time-base detector fires, the new timeBase is
\* (old timeBase + 1) mod 5 for every old timeBase in 0..4; 4 yields 0.
C5_ModeCyclingWraps ==
    (last.op = "tick" /\ last.sumFired /\ last.preTimeBase \in 0..4) =>
        /\ timeBase = (last.preTimeBase + 1) % 5
        /\ timeBase \in 0..4

\* a trigger at timeBase = 4
C5_Witness ==
    /\ last.op = "tick"
    /\ last.sumFired
    /\ last.preTimeBase = 4
    /\ timeBase = 0

\* C6: in a tick where the time-base trigger fires, the seconds per cycle are
\* looked up from the new timeBase and the phase after that tick's step is
\* min(f_new * dt, 0.5), whatever the phase was before the tick.
C6_ModeChangeAtomic ==
    (last.op = "tick" /\ last.sumFired) =>
        /\ last.seconds = NumberOfSeconds(timeBase)
        /\ last.stepPhase =
             DeltaPhase(Frequency(duration, NumberOfSeconds(timeBase)),
                        SampleTime(sampleRate))

\* a mode change on a phase that was not 0, followed by a visible advance
C6_Witness ==
    /\ last.op = "tick"
    /\ last.sumFired
    /\ last.prePhase > 0
    /\ last.stepPhase > 0
    /\ last.stepPhase < Half
    /\ last.stepPhase # last.prePhase

\* C7: through any sequence of ticks, reset() calls and loads of persisted
\* state, the timeBase a tick uses is an integer in 0..4.
C7_TimeBaseValid == last.op = "tick" => timeBase \in 0..4

\* C8: loading a persisted index outside 0..4 leaves timeBase = 0.
C8_MalformedRejected ==
    (last.op = "fromJson" /\ last.present /\ last.stored \notin 0..4) =>
        timeBase = 0

\* C9: in a tick where the reset input is inactive the reset detector is not
\* invoked: its state is the one before the tick, it reports no trigger, and
\* the phase is the one step left, whatever the reset input's value.
C9_InactiveResetIgnored ==
    (last.op = "tick" /\ ~last.resetActive) =>
        /\ resetTrigger = last.preArmed
        /\ ~last.fired
        /\ phase = last.stepPhase

\* an inactive reset input whose value would have fired the detector
C9_Witness ==
    /\ last.op = "tick"
    /\ ~last.resetActive
    /\ last.signal >= ResetHigh
    /\ ~last.preArmed
    /\ last.stepPhase > 0
    /\ phase = last.stepPhase

\* C10: in every tick duration * secondsPerCycle > 0, so the frequency
\* handed to setFrequency is strictly positive and finite.
C10_FrequencyWellDefined ==
    last.op = "tick" => (last.period > 0 /\ freq.den > 0)

\* C11: in every tick the duration used for the frequency lies in [1, 100]
\* and equals clamp(base + modulation, 1, 100), the modulation being added
\* only when its input is active.
C11_DurationClamped ==
    last.op = "tick" =>
        LET sum == IF last.fmActive THEN last.durParam + last.fm
                   ELSE last.durParam
        IN  /\ 1 <= duration /\ duration <= 100
            /\ duration = (IF sum < 1 THEN 1 ELSE IF sum > 100 THEN 100 ELSE sum)
            /\ last.period = duration * last.seconds

\* a tick whose base + modulation lay above 100 and was clamped
C11_Witness ==
    /\ last.op = "tick"
    /\ last.fmActive
    /\ last.durParam + last.fm > 100
    /\ duration = 100

\* C12: the time-base indices 0..4 (Minutes, Hours, Days, Weeks, Months) map
\* to 60, 3600, 86400, 604800 and 2592000 seconds per cycle.
C12_TimeBaseTable ==
    (last.op = "tick" /\ timeBase \in 0..4) =>
        last.seconds = <<60, 3600, 86400, 604800, 2592000>>[timeBase + 1]

\* C13: after every tick exactly one of the five lights is on, the other
\* four are off, and the lit light's index is the current timeBase.
C13_OneLightLit ==
    last.op = "tick" =>
        /\ \A i \in 0..4 : lights[i] \in {0, 1}
        /\ {i \in 0..4 : lights[i] = 1} = {timeBase}

\* C14: sin(), tri(), saw(), sqr() and progress() leave phase, freq, pw,
\* offset, invert and the reset detector unchanged, and a readout called
\* again with no other call between returns the value it returned before.
C14_ReadoutsPure ==
    [][last'.op \in Readouts =>
         /\ UNCHANGED <<phase, freq, pw, offset, invert, resetTrigger>>
         /\ last.op = last'.op => last'.value = last.value]_vars

\* a second readout in a row, on a configuration away from the defaults
C14_Witness ==
    /\ last.op \in Readouts
    /\ last.reads >= 2
    /\ last.value # 0
    /\ phase > 0
    /\ offset
    /\ resetTrigger

\* C15 as stated: with offset = false and invert = false no phase gives a
\* triangle readout above the one at phase = 0.5.
C15_TrianglePeakAtHalf ==
    (last.op = "tri" /\ ~offset /\ ~invert) =>
        last.value <= TriValue(Half, FALSE, FALSE)

\* C15 as amended: with offset = false and invert = false the triangle
\* readout -1 + tri(phase - 0.75) is at most 1.0 at every phase, is 1.0 at
\* phase = 0.25, and is 0.0 at phase = 0.5.
C15_TrianglePeakAtQuarter ==
    (last.op = "tri" /\ ~offset /\ ~invert) =>
        /\ last.value <= One
        /\ phase = One \div 4 => last.value = One
        /\ phase = Half => last.value = 0

\* the triangle read at phase = 0.25
C15_Witness ==
    /\ last.op = "tri"
    /\ ~offset
    /\ ~invert
    /\ phase = One \div 4
    /\ last.value = One

\* the last operation was a tick in which neither detector fired
Quiet == last.op = "tick" /\ ~last.sumFired /\ ~last.fired

\* the last tick's step carried the phase past 1.0
Wrapped == last.op = "tick" /\ last.stepPhase < last.prePhase

\* C16: in an infinite run of ticks with a fixed positive sample interval in
\* which no time-base trigger and no reset trigger fires, the phase wraps
\* infinitely often: always, eventually, the phase wraps or the run stops
\* being such a run.
C16_CycleCompletes == []<>(Wrapped \/ ~Quiet)

\* C17 as stated: timeBase changes only in a tick where the time-base edge
\* detector fires.
C17_OnlyOnEdge ==
    timeBase # last.preTimeBase => (last.op = "tick" /\ last.sumFired)

\* C17 as amended: within a tick timeBase changes only if the time-base
\* detector fires, which takes a signal >= high and a signal <= low seen
\* since the previous firing, so a signal held high advances timeBase once;
\* between ticks reset() sets timeBase to 0 and a load of persisted state
\* sets it to the stored integer when the key is present.
C17_ChangeOnEdgeResetOrLoad ==
    /\ timeBase # last.preTimeBase =>
         \/ last.op = "tick" /\ last.sumFired
         \/ last.op = "reset"
         \/ last.op = "fromJson" /\ last.present
    /\ (last.op = "tick" /\ last.sumFired) =>
         /\ last.tbSignal >= SumHigh
         /\ last.preLow
    /\ last.op = "reset" => timeBase = 0
    /\ last.op = "fromJson" =>
         timeBase = (IF last.present THEN last.stored ELSE last.preTimeBase)

\* a tick with the signal still high after the tick that advanced timeBase
C17_Witness ==
    /\ last.op = "tick"
    /\ last.tbSignal >= SumHigh
    /\ ~last.preLow
    /\ ~last.sumFired
    /\ timeBase = last.preTimeBase
    /\ timeBase > 0

\* C18: whenever an operation changes timeBase (a trigger edge in a tick,
\* reset(), or a load of persisted state), that operation sets phase to 0
\* before the next step runs: after reset() or a load phase is 0, and in a
\* tick the step starts from 0 and leaves phase at deltaPhase.
C18_ChangeResetsPhase ==
    timeBase # last.preTimeBase =>
        /\ last.op \in {"reset", "fromJson"} => phase = 0
        /\ last.op = "tick" => last.stepPhase = last.delta

\* C19: in every tick where the reset input is active and its detector
\* fires, the reset is applied after step: the phase left by the tick is
\* exactly 0 and the four outputs are the readouts at phase 0, whatever the
\* phase before, the frequency, and whether the time-base trigger fired too.
C19_ResetWins ==
    (last.op = "tick" /\ last.resetActive /\ last.fired) =>
        /\ phase = 0
        /\ outputs = [sin |-> 0, tri |-> 0, saw |-> 0, sqr |-> 5 * One]

\* both detectors fired in a tick whose step had moved the phase off 0
C19_Witness ==
    /\ last.op = "tick"
    /\ last.resetActive
    /\ last.fired
    /\ last.sumFired
    /\ last.prePhase > 0
    /\ last.stepPhase > 0
    /\ phase = 0

====
